---- MODULE Spec2Model ----
(***************************************************************************)
(* Model of the cooperative task-scheduling core of                        *)
(* src/rust/Japan/tokio_emulator.rs: the Poll/Future contract, the         *)
(* primitive futures Task, Sleep, Yield and AsyncFn, the Timeout wrapper   *)
(* and Runtime::block_on with its background queue.                        *)
(*                                                                         *)
(* A future is a record holding the fields of its Rust struct; poll is an  *)
(* operator from a future to the set of outcomes [fut, res] one call can   *)
(* produce (the future after the call, the Poll value returned).  The set  *)
(* has more than one element only where the build decides the outcome:     *)
(* `self.elapsed += 1` on a u32 that holds u32::MAX panics in a build with *)
(* overflow checks and wraps to 0 in one without.                          *)
(***************************************************************************)
EXTENDS Integers, Naturals, Sequences, FiniteSets, TLC

\* ------------------------------------------------------------------ bounds

\* Largest tick count given to Sleep::new.
MaxTicks == 10
\* Largest tick budget given to Timeout::new.
MaxBudget == 5
\* Largest number of polls of the top-level future in one behaviour.
MaxPolls == 12
\* Task and closure outputs are drawn from 1..MaxVal.
MaxVal == 2
\* Largest number of Task::complete calls in one behaviour.
MaxCompletes == 2
\* Largest number of Runtime::spawn calls in one behaviour.
MaxUnits == 1
\* A spawned closure that finishes reports done on its 1st..MaxSteps-th call.
MaxSteps == 2
\* Largest number of Channel calls in one behaviour.
MaxChanOps == 6
\* Largest tick count and budget of the futures handed to select.
MaxSelTicks == 3
\* Polls of select that are logged; later polls leave the log as it is.
MaxSelLog == 10
\* Units spawned in one behaviour of the runtime on its own.
MaxRtUnits == 3
\* Calls of process_tasks in one behaviour of the runtime on its own.
MaxCycles == 2
\* Calls of one unit that are counted; later calls leave the count as it is.
MaxCalls == 3
\* Largest tick count of the futures handed to block_on of the runtime on
\* its own.
MaxRtTicks == 3
\* Units spawned in one behaviour of block_on and run together.
MaxBoUnits == 2
\* Polls and drain cycles of one block_on that are logged.
MaxBoLog == 6
\* Largest number of JoinHandle calls in one behaviour.
MaxJoinOps == 6
\* In SpecFrame: the calls the caller makes in one behaviour, and the ticks
\* of the Sleep it holds.
MaxFrameOps == 5
MaxFrameTicks == 2
\* SpecLate starts a Sleep at most this many polls before elapsed = u32::MAX.
LateWindow == 2

Values == 1..MaxVal

\* ------------------------------------------------------- u32 arithmetic

\* A u32 is kept as two 16-bit halves, [hi, lo] standing for hi * 2^16 + lo,
\* so that the full 32-bit range is exact.
U16Radix == 65536

U32(n) == [hi |-> n \div U16Radix, lo |-> n % U16Radix]

U32Max == [hi |-> U16Radix - 1, lo |-> U16Radix - 1]

U32Zero == U32(0)

\* x >= y on u32.
U32Geq(x, y) == x.hi > y.hi \/ (x.hi = y.hi /\ x.lo >= y.lo)

\* x + 1 where it does not overflow.
U32Succ(x) ==
    IF x.lo = U16Radix - 1
    THEN [hi |-> x.hi + 1, lo |-> 0]
    ELSE [hi |-> x.hi, lo |-> x.lo + 1]

\* x - d for a small d <= x.lo.
U32Minus(x, d) == [hi |-> x.hi, lo |-> x.lo - d]

\* ------------------------------------------------------------ Poll<T>

Pending == [tag |-> "Pending"]

Ready(v) == [tag |-> "Ready", val |-> v]

\* Not a Poll value: the call did not return, the thread panicked.
Panic == [tag |-> "Panic"]

\* Output values: (), an integer, Ok(v), Err(TimeoutError).
Unit == [t |-> "Unit"]

Int32(n) == [t |-> "Int", n |-> n]

Ok(v) == [t |-> "Ok", v |-> v]

ErrTimeout == [t |-> "Err"]

\* ------------------------------------------------------ constructors

TaskNew == [kind |-> "Task", state |-> "Running"]

SleepNew(n) == [kind |-> "Sleep", ticks |-> U32(n), elapsed |-> U32Zero]

YieldNew == [kind |-> "Yield", yielded |-> FALSE]

\* AsyncFn::new over the closure `|| { counter += 1; counter }` whose captured
\* counter starts at c: func is kept as the closure's captured state.
AsyncFnNew(c) == [kind |-> "AsyncFn", func |-> c, executed |-> FALSE]

TimeoutNew(f, k) == [kind |-> "Timeout", future |-> f, remaining |-> k]

\* Mutant of complete: a Task that is Ready keeps its value.
complete_first_wins(f, v) ==
    IF f.state = "Ready" THEN f
    ELSE [kind |-> "Task", state |-> "Ready", value |-> v]

\* Task::complete
complete(f, v) == [kind |-> "Task", state |-> "Ready", value |-> v]

\* Mutant of is_ready: the wrong variant is matched.
is_ready_running(f) == f.state = "Running"

\* Task::is_ready
is_ready(f) == f.state = "Ready"

\* ------------------------------------------------------------- poll

Out(f, r) == [fut |-> f, res |-> r]

\* Mutant of Task_poll: the value is moved out, the Task is Running again.
Task_poll_take(f) ==
    IF f.state = "Ready"
    THEN {Out([kind |-> "Task", state |-> "Running"], Ready(Int32(f.value)))}
    ELSE {Out(f, Pending)}

Task_poll(f) ==
    IF f.state = "Ready"
    THEN {Out(f, Ready(Int32(f.value)))}
    ELSE {Out(f, Pending)}

\* Mutant of Sleep_check: `>` for `>=`.
Sleep_check_strict(f) ==
    IF U32Geq(f.elapsed, f.ticks) /\ f.elapsed # f.ticks
    THEN Out(f, Ready(Unit))
    ELSE Out(f, Pending)

Sleep_check(f) ==
    IF U32Geq(f.elapsed, f.ticks) THEN Out(f, Ready(Unit)) ELSE Out(f, Pending)

Sleep_poll(f) ==
    IF f.elapsed = U32Max
    THEN {Out(f, Panic), Sleep_check([f EXCEPT !.elapsed = U32Zero])}
    ELSE {Sleep_check([f EXCEPT !.elapsed = U32Succ(f.elapsed)])}

\* Mutant of AsyncFn_poll: the executed flag is not looked at, every poll
\* calls the closure.
AsyncFn_poll_rerun(f) ==
    {Out([f EXCEPT !.executed = TRUE, !.func = f.func + 1],
         Ready(Int32(f.func + 1)))}

AsyncFn_poll(f) ==
    IF ~f.executed
    THEN {Out([f EXCEPT !.executed = TRUE, !.func = f.func + 1],
              Ready(Int32(f.func + 1)))}
    ELSE {Out(f, Pending)}

\* Mutant of Yield_poll: the flag is cleared by the Ready poll, so the Yield
\* is Pending on every other poll.
Yield_poll_toggle(f) ==
    IF ~f.yielded
    THEN {Out([f EXCEPT !.yielded = TRUE], Pending)}
    ELSE {Out([f EXCEPT !.yielded = FALSE], Ready(Unit))}

Yield_poll(f) ==
    IF ~f.yielded
    THEN {Out([f EXCEPT !.yielded = TRUE], Pending)}
    ELSE {Out(f, Ready(Unit))}

RECURSIVE poll(_)

\* Mutant of Timeout_poll: the budget is not looked at after the inner poll,
\* the timeout is reported by the early return of the next poll.
Timeout_poll_late(f) ==
    IF f.remaining = 0
    THEN {Out(f, Ready(ErrTimeout))}
    ELSE { LET g == [f EXCEPT !.remaining = f.remaining - 1, !.future = o.fut]
           IN  CASE o.res.tag = "Ready" -> Out(g, Ready(Ok(o.res.val)))
                 [] o.res.tag = "Panic" -> Out(g, Panic)
                 [] OTHER -> Out(g, Pending)
           : o \in poll(f.future) }

\* Mutant of Timeout_poll: the exhausted budget is looked at before the inner
\* result, so a tie on the last tick is a timeout.
Timeout_poll_tiebreak(f) ==
    IF f.remaining = 0
    THEN {Out(f, Ready(ErrTimeout))}
    ELSE LET rem == f.remaining - 1
         IN  { LET g == [f EXCEPT !.remaining = rem, !.future = o.fut]
               IN  CASE o.res.tag = "Panic" -> Out(g, Panic)
                     [] rem = 0 -> Out(g, Ready(ErrTimeout))
                     [] o.res.tag = "Ready" -> Out(g, Ready(Ok(o.res.val)))
                     [] OTHER -> Out(g, Pending)
               : o \in poll(f.future) }

\* Mutant of Timeout_poll: a pending inner future is reported as a timeout
\* whatever budget remains.
Timeout_poll_eager(f) ==
    IF f.remaining = 0
    THEN {Out(f, Ready(ErrTimeout))}
    ELSE LET rem == f.remaining - 1
         IN  { LET g == [f EXCEPT !.remaining = rem, !.future = o.fut]
               IN  CASE o.res.tag = "Ready" -> Out(g, Ready(Ok(o.res.val)))
                     [] o.res.tag = "Panic" -> Out(g, Panic)
                     [] OTHER -> Out(g, Ready(ErrTimeout))
               : o \in poll(f.future) }

\* Mutant of Timeout_poll: `self.remaining -= 1` is missing.
Timeout_poll_nodec(f) ==
    IF f.remaining = 0
    THEN {Out(f, Ready(ErrTimeout))}
    ELSE { LET g == [f EXCEPT !.future = o.fut]
           IN  CASE o.res.tag = "Ready" -> Out(g, Ready(Ok(o.res.val)))
                 [] o.res.tag = "Panic" -> Out(g, Panic)
                 [] OTHER -> Out(g, Pending)
           : o \in poll(f.future) }

\* Mutant of Timeout_poll: no early return, the inner future is polled before
\* the budget is looked at.
Timeout_poll_innerfirst(f) ==
    LET rem == IF f.remaining = 0 THEN 0 ELSE f.remaining - 1
    IN  { LET g == [f EXCEPT !.remaining = rem, !.future = o.fut]
          IN  CASE o.res.tag = "Ready" -> Out(g, Ready(Ok(o.res.val)))
                [] o.res.tag = "Panic" -> Out(g, Panic)
                [] OTHER -> IF rem = 0
                            THEN Out(g, Ready(ErrTimeout))
                            ELSE Out(g, Pending)
          : o \in poll(f.future) }

Timeout_poll(f) ==
    IF f.remaining = 0
    THEN {Out(f, Ready(ErrTimeout))}
    ELSE LET rem == f.remaining - 1
         IN  { LET g == [f EXCEPT !.remaining = rem, !.future = o.fut]
               IN  CASE o.res.tag = "Ready" -> Out(g, Ready(Ok(o.res.val)))
                     [] o.res.tag = "Panic" -> Out(g, Panic)
                     [] OTHER -> IF rem = 0
                                 THEN Out(g, Ready(ErrTimeout))
                                 ELSE Out(g, Pending)
               : o \in poll(f.future) }

\* Future::poll, dispatched on the implementing type.
poll(f) ==
    CASE f.kind = "Task" -> Task_poll(f)
      [] f.kind = "Sleep" -> Sleep_poll(f)
      [] f.kind = "AsyncFn" -> AsyncFn_poll(f)
      [] f.kind = "Yield" -> Yield_poll(f)
      [] f.kind = "Timeout" -> Timeout_poll(f)

\* ---------------------------------------------------------- Runtime

\* A background unit is a boxed closure FnMut() -> bool.  It is kept as
\* [id, left, never]: id is its place in the order of the spawn calls, left the
\* number of calls it still needs before it returns true, never whether it
\* returns false on every call.
Unit_new(i, n, nv) == [id |-> i, left |-> n, never |-> nv]

\* One call `task()`: the closure afterwards, and what it returned.
step(u) ==
    IF u.never
    THEN [unit |-> u, done |-> FALSE]
    ELSE [unit |-> [u EXCEPT !.left = u.left - 1], done |-> u.left = 1]

\* Mutant of spawn: push_front for push_back.
spawn_front(q, u) == <<u>> \o q

\* Runtime::spawn
spawn(q, u) == Append(q, u)

\* Runtime::process_tasks: pop every unit from the front, call it, push the
\* ones that are not done onto remaining_tasks, which becomes the queue.
RECURSIVE process_tasks(_)
process_tasks(q) ==
    IF q = <<>> THEN <<>>
    ELSE LET s == step(Head(q))
         IN  (IF s.done THEN <<>> ELSE <<s.unit>>) \o process_tasks(Tail(q))

\* Mutant of process_tasks_step: a unit that is not done is put at the front
\* of remaining_tasks.
process_tasks_step_front(q, rem) ==
    LET s == step(Head(q))
    IN  [tasks |-> Tail(q),
         remaining_tasks |-> IF s.done THEN rem ELSE <<s.unit>> \o rem,
         called |-> Head(q).id,
         done |-> s.done]

\* Mutant of process_tasks_step: the unit is pushed back whatever it returned.
process_tasks_step_keep(q, rem) ==
    LET s == step(Head(q))
    IN  [tasks |-> Tail(q),
         remaining_tasks |-> Append(rem, IF s.done THEN Head(q) ELSE s.unit),
         called |-> Head(q).id,
         done |-> s.done]

\* Mutant of process_tasks_step: after a unit that is not done the rest of
\* the queue is moved over without being called.
process_tasks_step_starve(q, rem) ==
    LET s == step(Head(q))
    IN  [tasks |-> IF s.done THEN Tail(q) ELSE <<>>,
         remaining_tasks |-> IF s.done THEN rem
                             ELSE Append(rem, s.unit) \o Tail(q),
         called |-> Head(q).id,
         done |-> s.done]

\* One turn of `while let Some(mut task) = self.tasks.pop_front()` with a
\* unit in the queue: the unit is popped and called, and pushed onto the
\* back of remaining_tasks when it returned false.
process_tasks_step(q, rem) ==
    LET s == step(Head(q))
    IN  [tasks |-> Tail(q),
         remaining_tasks |-> IF s.done THEN rem ELSE Append(rem, s.unit),
         called |-> Head(q).id,
         done |-> s.done]

\* ---------------------------------------------------------- Channel

\* Option<T>
None == [o |-> "None"]

Some(v) == [o |-> "Some", v |-> v]

\* Mutant of send: the buffer has a capacity and a value sent to a full
\* buffer is dropped.
send_bounded(buf, v) == IF Len(buf) >= 2 THEN buf ELSE Append(buf, v)

\* Channel::send: self.buffer.push(value)
send(buf, v) == Append(buf, v)

\* Mutant of try_recv: the earliest value is returned and left in the buffer.
try_recv_peek(buf) ==
    IF buf = <<>>
    THEN [buffer |-> buf, ret |-> None]
    ELSE [buffer |-> buf, ret |-> Some(Head(buf))]

\* Mutant of try_recv: the newest value is taken (pop).
try_recv_lifo(buf) ==
    IF buf = <<>>
    THEN [buffer |-> buf, ret |-> None]
    ELSE [buffer |-> SubSeq(buf, 1, Len(buf) - 1), ret |-> Some(buf[Len(buf)])]

\* Mutant of try_recv: no is_empty test, remove(0) on an empty Vec panics.
try_recv_unchecked(buf) ==
    IF buf = <<>>
    THEN [buffer |-> buf, ret |-> [o |-> "Panic"]]
    ELSE [buffer |-> Tail(buf), ret |-> Some(Head(buf))]

\* Channel::try_recv: the buffer afterwards and the value returned.
try_recv(buf) ==
    IF buf = <<>>
    THEN [buffer |-> buf, ret |-> None]
    ELSE [buffer |-> Tail(buf), ret |-> Some(Head(buf))]

\* ------------------------------------------------------- JoinHandle

\* JoinHandle::new: result: Some(result)
JoinHandle_new(v) == [result |-> Some(v)]

\* Mutant of await_result: the cell is emptied first and then read.
await_result_taken(h) ==
    [handle |-> [result |-> None], ret |-> [o |-> "Panic"]]

\* JoinHandle::await_result, self.result.take().expect("Result already
\* taken"): the cell afterwards and what the call returned, the value or the
\* panic of expect on None.
await_result(h) ==
    [handle |-> [result |-> None],
     ret |-> IF h.result = None THEN [o |-> "Panic"] ELSE h.result]

\* ----------------------------------------------------------- select

\* enum Select<A, B>
First(v) == [s |-> "First", v |-> v]

Second(v) == [s |-> "Second", v |-> v]

\* select has not reached a return statement.
NoReturn == [s |-> "None"]

\* Mutant of select_call: the first round starts with b.
select_call_b_first(a, b) == [pc |-> "b1", a |-> a, b |-> b, ret |-> NoReturn]

\* select(a, b) is entered: a and b move into it, the first statement is the
\* poll of a in the initial round.  pc is the statement select is at:
\* "a1", "b1" the polls before the loop, "a2", "b2" the polls in the loop,
\* "ret" a return statement reached.
select_call(a, b) == [pc |-> "a1", a |-> a, b |-> b, ret |-> NoReturn]

\* Mutant of select_poll_a: in the loop a Pending a is polled again, b is
\* left out of the loop.
select_poll_a_alone(s, q) ==
    {[sel |-> CASE o.res.tag = "Ready" ->
                    [s EXCEPT !.a = o.fut, !.pc = "ret", !.ret = First(o.res.val)]
                [] o.res.tag = "Pending" ->
                    [s EXCEPT !.a = o.fut, !.pc = IF s.pc = "a1" THEN "b1" ELSE "a2"]
                [] OTHER -> [s EXCEPT !.a = o.fut, !.pc = "panicked"],
      tasks |-> q,
      res |-> o.res] : o \in poll(s.a)}

\* match a.poll(): Ready returns First(output), Pending goes on to b.  q is
\* the runtime's queue, which select has no reference to.
select_poll_a(s, q) ==
    {[sel |-> CASE o.res.tag = "Ready" ->
                    [s EXCEPT !.a = o.fut, !.pc = "ret", !.ret = First(o.res.val)]
                [] o.res.tag = "Pending" ->
                    [s EXCEPT !.a = o.fut, !.pc = IF s.pc = "a1" THEN "b1" ELSE "b2"]
                [] OTHER -> [s EXCEPT !.a = o.fut, !.pc = "panicked"],
      tasks |-> q,
      res |-> o.res] : o \in poll(s.a)}

\* Mutant of select_poll_b: a round in which both are Pending drains the
\* runtime's queue, as block_on does.
select_poll_b_drain(s, q) ==
    {[sel |-> CASE o.res.tag = "Ready" ->
                    [s EXCEPT !.b = o.fut, !.pc = "ret", !.ret = Second(o.res.val)]
                [] o.res.tag = "Pending" ->
                    [s EXCEPT !.b = o.fut, !.pc = "a2"]
                [] OTHER -> [s EXCEPT !.b = o.fut, !.pc = "panicked"],
      tasks |-> IF o.res.tag = "Pending" THEN process_tasks(q) ELSE q,
      res |-> o.res] : o \in poll(s.b)}

\* match b.poll(): Ready returns Second(output), Pending goes on to the poll
\* of a in the loop.
select_poll_b(s, q) ==
    {[sel |-> CASE o.res.tag = "Ready" ->
                    [s EXCEPT !.b = o.fut, !.pc = "ret", !.ret = Second(o.res.val)]
                [] o.res.tag = "Pending" ->
                    [s EXCEPT !.b = o.fut, !.pc = "a2"]
                [] OTHER -> [s EXCEPT !.b = o.fut, !.pc = "panicked"],
      tasks |-> q,
      res |-> o.res] : o \in poll(s.b)}

\* ------------------------------------------------------------ state

VARIABLES
    fut0,    \* history: the top-level future as it was constructed
    fut,     \* the top-level future
    pc,      \* where the caller is: "caller" holds the future; "bo_poll" and
             \* "bo_drain" are inside Runtime::block_on; "returned"; "panicked"
    hist,    \* history: the results of the polls of the top-level future
    tasks,   \* Runtime.tasks
    boArg,   \* history: the future as it was when block_on received it
    ncomplete, \* history: the number of Task::complete calls so far
    nspawn,  \* history: the number of Runtime::spawn calls so far
    result,  \* what block_on returned
    lastv,   \* history: the value given to the last Task::complete call
    obs,     \* history: what the last Task::is_ready call returned
    buffer,  \* Channel.buffer
    clog,    \* history: the Channel calls so far, each with what it returned
    sel,     \* select(a, b): its position, its two futures, its return value
    sel0,    \* history: sel as it was when select was entered
    selHist, \* history: the polls select has made, each with its result
    remaining_tasks, \* process_tasks: the local queue of unfinished units
    steps,   \* history: the ids of the units called, in call order
    cycleStart, \* history: Runtime.tasks as the current drain cycle found it
    ncycles, \* history: the number of process_tasks calls so far
    ptRet,   \* process_tasks: where it returns to, "run" or "bo_poll"
    spawned, \* history: the units as they were spawned, by id
    ncalls,  \* history: by id, the number of calls of the unit so far
    reported, \* history: the ids of the units whose call has returned true
    boLog,   \* history: the polls and drain cycles of the current block_on
    results, \* history: the block_on calls that returned, argument and value
    handle,  \* a JoinHandle
    jlog     \* history: what the await_result calls on the handle returned

taskVars == <<lastv, obs>>

chanVars == <<buffer, clog>>

selVars == <<sel, sel0, selHist>>

ptVars == <<remaining_tasks, steps, cycleStart, ncycles>>

rtVars == <<ptRet, spawned, ncalls, reported, boLog, results>>

joinVars == <<handle, jlog>>

futVars == <<fut0, fut, pc, hist, tasks, boArg, ncomplete, nspawn, result>>

vars == <<fut0, fut, pc, hist, tasks, boArg, ncomplete, nspawn, result,
          taskVars, chanVars, selVars, ptVars, rtVars, joinVars>>

NoResult == [t |-> "None"]

\* The futures a caller can hand to Timeout::new: the primitives as
\* constructed, and a Task that was completed before it was moved in.
InnerFutures ==
    {TaskNew} \cup {complete(TaskNew, v) : v \in Values}
    \cup {SleepNew(n) : n \in 0..MaxTicks}
    \cup {YieldNew}
    \cup {AsyncFnNew(c) : c \in 0..(MaxVal - 1)}

Futures ==
    {TaskNew} \cup {SleepNew(n) : n \in 0..MaxTicks} \cup {YieldNew}
    \cup {AsyncFnNew(c) : c \in 0..(MaxVal - 1)}
    \cup {TimeoutNew(f, k) : f \in InnerFutures, k \in 0..MaxBudget}

\* No is_ready call yet.
NoObs == "none"

\* No Task::complete call yet.
NoValue == 0

InitTask == lastv = NoValue /\ obs = NoObs

\* Channel::new
ChannelNew == <<>>

InitChan == buffer = ChannelNew /\ clog = <<>>

\* select has not been called.
SelIdle == [pc |-> "idle"]

InitSel == sel = SelIdle /\ sel0 = SelIdle /\ selHist = <<>>

InitPt ==
    /\ remaining_tasks = <<>>
    /\ steps = <<>>
    /\ cycleStart = <<>>
    /\ ncycles = 0

InitRt ==
    /\ ptRet = "run"
    /\ spawned = <<>>
    /\ ncalls = <<>>
    /\ reported = {}
    /\ boLog = <<>>
    /\ results = <<>>

\* No JoinHandle yet.
NoHandle == [h |-> "None"]

InitJoin == handle = NoHandle /\ jlog = <<>>

Init ==
    /\ fut0 \in Futures
    /\ fut = fut0
    /\ pc = "caller"
    /\ hist = <<>>
    /\ tasks = <<>>
    /\ boArg = NoResult
    /\ ncomplete = 0
    /\ nspawn = 0
    /\ result = NoResult
    /\ InitTask /\ InitChan /\ InitSel /\ InitPt /\ InitRt /\ InitJoin

\* The caller polls the future it holds.
Poll ==
    /\ pc = "caller"
    /\ Len(hist) < MaxPolls
    /\ \E o \in poll(fut) :
        /\ fut' = o.fut
        /\ hist' = Append(hist, o.res)
        /\ pc' = IF o.res.tag = "Panic" THEN "panicked" ELSE "caller"
    /\ UNCHANGED <<fut0, tasks, boArg, ncomplete, nspawn, result>>
    /\ UNCHANGED <<taskVars, chanVars, selVars, ptVars, rtVars, joinVars>>

\* The caller completes the Task it holds.
Complete ==
    /\ pc = "caller"
    /\ fut.kind = "Task"
    /\ ncomplete < MaxCompletes
    /\ \E v \in Values : fut' = complete(fut, v) /\ lastv' = v
    /\ ncomplete' = ncomplete + 1
    /\ UNCHANGED <<fut0, pc, hist, tasks, boArg, nspawn, result>>
    /\ UNCHANGED <<obs, chanVars, selVars, ptVars, rtVars, joinVars>>

\* The caller asks the Task it holds whether it is ready (&self: the Task is
\* only read).
\* Mutant of IsReady: looking at a completed Task puts it back to Running.
IsReady_reset ==
    /\ pc = "caller"
    /\ fut.kind = "Task"
    /\ obs' = IF is_ready(fut) THEN "true" ELSE "false"
    /\ fut' = TaskNew
    /\ UNCHANGED <<fut0, pc, hist, tasks, boArg, ncomplete, nspawn, result>>
    /\ UNCHANGED <<lastv, chanVars, selVars, ptVars, rtVars, joinVars>>

IsReady ==
    /\ pc = "caller"
    /\ fut.kind = "Task"
    /\ obs' = IF is_ready(fut) THEN "true" ELSE "false"
    /\ UNCHANGED <<fut0, fut, pc, hist, tasks, boArg, ncomplete, nspawn, result>>
    /\ UNCHANGED <<lastv, chanVars, selVars, ptVars, rtVars, joinVars>>

\* The caller spawns a background unit on the runtime.
Spawn ==
    /\ pc = "caller"
    /\ nspawn < MaxUnits
    /\ \E n \in 1..MaxSteps, nv \in BOOLEAN :
        tasks' = spawn(tasks, Unit_new(nspawn + 1, IF nv THEN 0 ELSE n, nv))
    /\ nspawn' = nspawn + 1
    /\ UNCHANGED <<fut0, fut, pc, hist, boArg, ncomplete, result>>
    /\ UNCHANGED <<taskVars, chanVars, selVars, ptVars, rtVars, joinVars>>

\* Runtime::block_on is entered: the future moves into it.
BlockOnCall ==
    /\ pc = "caller"
    /\ pc' = "bo_poll"
    /\ boArg' = fut
    /\ UNCHANGED <<fut0, fut, hist, tasks, ncomplete, nspawn, result>>
    /\ UNCHANGED <<taskVars, chanVars, selVars, ptVars, rtVars, joinVars>>

\* block_on: `match future.poll()`.
BlockOnPoll ==
    /\ pc = "bo_poll"
    /\ Len(hist) < MaxPolls
    /\ \E o \in poll(fut) :
        /\ fut' = o.fut
        /\ hist' = Append(hist, o.res)
        /\ pc' = CASE o.res.tag = "Ready" -> "returned"
                   [] o.res.tag = "Panic" -> "panicked"
                   [] OTHER -> "bo_drain"
        /\ result' = IF o.res.tag = "Ready" THEN o.res.val ELSE result
    /\ UNCHANGED <<fut0, tasks, boArg, ncomplete, nspawn>>
    /\ UNCHANGED <<taskVars, chanVars, selVars, ptVars, rtVars, joinVars>>

\* block_on: `Poll::Pending => self.process_tasks()`.
BlockOnDrain ==
    /\ pc = "bo_drain"
    /\ tasks' = process_tasks(tasks)
    /\ pc' = "bo_poll"
    /\ UNCHANGED <<fut0, fut, hist, boArg, ncomplete, nspawn, result>>
    /\ UNCHANGED <<taskVars, chanVars, selVars, ptVars, rtVars, joinVars>>

Next == Poll \/ Complete \/ Spawn \/ BlockOnCall \/ BlockOnPoll \/ BlockOnDrain

Spec == Init /\ [][Next]_vars

\* A Sleep late in a long run.  Every poll adds one to elapsed, so
\* Sleep::new(n) polled 2^32 - 1 - d times holds elapsed = u32::MAX - d; the
\* last of those polls returned Ready(()) because elapsed >= ticks.  hist
\* starts with that last result.
LateSleep(n, d) ==
    [kind |-> "Sleep", ticks |-> U32(n), elapsed |-> U32Minus(U32Max, d)]

InitLate ==
    /\ \E n \in 0..MaxTicks, d \in 0..LateWindow :
        /\ fut0 = SleepNew(n)
        /\ fut = LateSleep(n, d)
    /\ pc = "caller"
    /\ hist = <<Ready(Unit)>>
    /\ tasks = <<>>
    /\ boArg = NoResult
    /\ ncomplete = 0
    /\ nspawn = 0
    /\ result = NoResult
    /\ InitTask /\ InitChan /\ InitSel /\ InitPt /\ InitRt /\ InitJoin

NextLate == Poll \/ Spawn \/ BlockOnCall \/ BlockOnPoll \/ BlockOnDrain

SpecLate == InitLate /\ [][NextLate]_vars

\* ------------------------------------------------- Task, on its own

\* The caller holds a Task it has just constructed.
InitTaskAlone ==
    /\ fut0 = TaskNew
    /\ fut = fut0
    /\ pc = "caller"
    /\ hist = <<>>
    /\ tasks = <<>>
    /\ boArg = NoResult
    /\ ncomplete = 0
    /\ nspawn = 0
    /\ result = NoResult
    /\ InitTask /\ InitChan /\ InitSel /\ InitPt /\ InitRt /\ InitJoin

NextTask == Poll \/ Complete \/ IsReady

SpecTask == InitTaskAlone /\ [][NextTask]_vars

\* ---------------------------------------------- Channel, on its own

\* The caller holds no future.
NoFuture == [kind |-> "None"]

InitNoFuture ==
    /\ fut0 = NoFuture
    /\ fut = NoFuture
    /\ pc = "caller"
    /\ hist = <<>>
    /\ tasks = <<>>
    /\ boArg = NoResult
    /\ ncomplete = 0
    /\ nspawn = 0
    /\ result = NoResult

InitChannel == InitNoFuture /\ InitTask /\ InitChan /\ InitSel /\ InitPt /\ InitRt /\ InitJoin

\* channel.send(v)
ChanSend ==
    /\ Len(clog) < MaxChanOps
    /\ \E v \in Values :
        /\ buffer' = send(buffer, v)
        /\ clog' = Append(clog, [op |-> "send", v |-> v])
    /\ UNCHANGED <<futVars, taskVars, selVars, ptVars, rtVars, joinVars>>

\* channel.try_recv()
ChanTryRecv ==
    /\ Len(clog) < MaxChanOps
    /\ LET r == try_recv(buffer)
       IN  /\ buffer' = r.buffer
           /\ clog' = Append(clog, [op |-> "try_recv", ret |-> r.ret])
    /\ UNCHANGED <<futVars, taskVars, selVars, ptVars, rtVars, joinVars>>

NextChannel == ChanSend \/ ChanTryRecv

SpecChannel == InitChannel /\ [][NextChannel]_vars

\* ----------------------------------------------- select, on its own

\* The futures handed to select: fresh ones and ones polled before.
SelectFutures ==
    {TaskNew} \cup {complete(TaskNew, v) : v \in Values}
    \cup {SleepNew(n) : n \in 0..MaxSelTicks}
    \cup {YieldNew}
    \cup {AsyncFnNew(0), [AsyncFnNew(0) EXCEPT !.executed = TRUE]}
    \cup {TimeoutNew(SleepNew(n), k) : n \in 0..MaxSelTicks, k \in 0..MaxSelTicks}

InitSelect == InitNoFuture /\ InitTask /\ InitChan /\ InitSel /\ InitPt /\ InitRt /\ InitJoin

\* The log of select's polls, MaxSelLog entries at most.
Logged(h, x) == IF Len(h) < MaxSelLog THEN Append(h, x) ELSE h

\* The caller calls select(a, b), a and b among the futures F.
SelectCallOf(F) ==
    /\ pc = "caller"
    /\ sel.pc = "idle"
    /\ \E a \in F, b \in F :
        /\ sel' = select_call(a, b)
        /\ sel0' = sel'
    /\ selHist' = <<>>
    /\ pc' = "select"
    /\ UNCHANGED <<fut0, fut, hist, tasks, boArg, ncomplete, nspawn, result>>
    /\ UNCHANGED <<taskVars, chanVars, ptVars, rtVars, joinVars>>

SelectCall == SelectCallOf(SelectFutures)

\* select polls a, before the loop or in it.
SelectPollA ==
    /\ pc = "select"
    /\ sel.pc \in {"a1", "a2"}
    /\ \E r \in select_poll_a(sel, tasks) :
        /\ sel' = r.sel
        /\ tasks' = r.tasks
        /\ selHist' = Logged(selHist, [who |-> "a", res |-> r.res])
        /\ pc' = IF r.sel.pc = "panicked" THEN "panicked" ELSE pc
    /\ UNCHANGED <<fut0, fut, hist, boArg, ncomplete, nspawn, result, sel0>>
    /\ UNCHANGED <<taskVars, chanVars, ptVars, rtVars, joinVars>>

\* select polls b, before the loop or in it.
SelectPollB ==
    /\ pc = "select"
    /\ sel.pc \in {"b1", "b2"}
    /\ \E r \in select_poll_b(sel, tasks) :
        /\ sel' = r.sel
        /\ tasks' = r.tasks
        /\ selHist' = Logged(selHist, [who |-> "b", res |-> r.res])
        /\ pc' = IF r.sel.pc = "panicked" THEN "panicked" ELSE pc
    /\ UNCHANGED <<fut0, fut, hist, boArg, ncomplete, nspawn, result, sel0>>
    /\ UNCHANGED <<taskVars, chanVars, ptVars, rtVars, joinVars>>

\* select returns to its caller; a and b are dropped.
SelectReturn ==
    /\ pc = "select"
    /\ sel.pc = "ret"
    /\ sel' = [sel EXCEPT !.pc = "returned"]
    /\ pc' = "caller"
    /\ UNCHANGED <<fut0, fut, hist, tasks, boArg, ncomplete, nspawn, result>>
    /\ UNCHANGED <<sel0, selHist, taskVars, chanVars, ptVars, rtVars, joinVars>>

NextSelect == Spawn \/ SelectCall \/ SelectPollA \/ SelectPollB \/ SelectReturn

SpecSelect == InitSelect /\ [][NextSelect]_vars

\* select is a plain loop of a running program: its next poll happens.
SpecSelectFair == SpecSelect /\ WF_vars(SelectPollA \/ SelectPollB)

\* ---------------------------------------------- Runtime, on its own

InitRuntime == InitNoFuture /\ InitTask /\ InitChan /\ InitSel /\ InitPt /\ InitRt /\ InitJoin

Min(a, b) == IF a <= b THEN a ELSE b

\* The futures handed to block_on: fresh ones and ones polled before.
RtFutures ==
    {TaskNew} \cup {complete(TaskNew, v) : v \in Values}
    \cup {SleepNew(n) : n \in 0..MaxRtTicks}
    \cup {YieldNew}
    \cup {AsyncFnNew(0), [AsyncFnNew(0) EXCEPT !.executed = TRUE]}

\* The caller spawns a background unit, between calls of run and block_on;
\* k is the number of units a behaviour has at most.
SpawnUnit(k) ==
    /\ pc = "caller"
    /\ nspawn < k
    /\ \E n \in 1..MaxSteps, nv \in BOOLEAN :
        LET u == Unit_new(nspawn + 1, IF nv THEN 0 ELSE n, nv)
        IN  /\ tasks' = spawn(tasks, u)
            /\ spawned' = Append(spawned, u)
    /\ ncalls' = Append(ncalls, 0)
    /\ nspawn' = nspawn + 1
    /\ UNCHANGED <<fut0, fut, pc, hist, boArg, ncomplete, result>>
    /\ UNCHANGED <<ptRet, reported, boLog, results>>
    /\ UNCHANGED <<taskVars, chanVars, selVars, ptVars, joinVars>>

RtSpawn == SpawnUnit(MaxRtUnits)

\* The caller calls Runtime::run; steps and cycleStart are kept for the
\* calls of process_tasks this run makes.
RunCall ==
    /\ pc = "caller"
    /\ pc' = "run"
    /\ steps' = <<>>
    /\ cycleStart' = <<>>
    /\ UNCHANGED <<fut0, fut, hist, tasks, boArg, ncomplete, nspawn, result>>
    /\ UNCHANGED <<remaining_tasks, ncycles, rtVars>>
    /\ UNCHANGED <<taskVars, chanVars, selVars, joinVars>>

\* process_tasks is entered: let mut remaining_tasks = VecDeque::new().
PtEnter(ret) ==
    /\ pc' = "pt_loop"
    /\ ptRet' = ret
    /\ remaining_tasks' = <<>>
    /\ steps' = <<>>
    /\ cycleStart' = tasks
    /\ ncycles' = Min(ncycles + 1, MaxCycles)

\* run: while !self.tasks.is_empty() -- an empty queue returns to the caller,
\* any other calls process_tasks.
RunTest ==
    /\ pc = "run"
    /\ IF tasks = <<>>
       THEN pc' = "caller" /\ UNCHANGED <<ptVars, ptRet>>
       ELSE PtEnter("run")
    /\ UNCHANGED <<fut0, fut, hist, tasks, boArg, ncomplete, nspawn, result>>
    /\ UNCHANGED <<spawned, ncalls, reported, boLog, results>>
    /\ UNCHANGED <<taskVars, chanVars, selVars, joinVars>>

\* process_tasks: one turn of the while let loop; an empty queue leaves it.
PtLoop ==
    /\ pc = "pt_loop"
    /\ IF tasks = <<>>
       THEN /\ pc' = "pt_end"
            /\ UNCHANGED <<tasks, remaining_tasks, steps, ncalls, reported>>
       ELSE LET r == process_tasks_step(tasks, remaining_tasks)
            IN  /\ tasks' = r.tasks
                /\ remaining_tasks' = r.remaining_tasks
                /\ steps' = Append(steps, r.called)
                /\ ncalls' = [ncalls EXCEPT
                                ![r.called] = Min(ncalls[r.called] + 1, MaxCalls)]
                /\ reported' = IF r.done THEN reported \cup {r.called}
                               ELSE reported
                /\ pc' = pc
    /\ UNCHANGED <<fut0, fut, hist, boArg, ncomplete, nspawn, result>>
    /\ UNCHANGED <<cycleStart, ncycles, ptRet, spawned, boLog, results>>
    /\ UNCHANGED <<taskVars, chanVars, selVars, joinVars>>

\* Mutant of PtEnd: the queue is left empty, remaining_tasks is dropped.
PtEnd_drop ==
    /\ pc = "pt_end"
    /\ tasks' = <<>>
    /\ remaining_tasks' = <<>>
    /\ pc' = ptRet
    /\ UNCHANGED <<fut0, fut, hist, boArg, ncomplete, nspawn, result>>
    /\ UNCHANGED <<steps, cycleStart, ncycles, rtVars>>
    /\ UNCHANGED <<taskVars, chanVars, selVars, joinVars>>

\* process_tasks: self.tasks = remaining_tasks, and back to the caller of
\* process_tasks: run's test or block_on's poll.
PtEnd ==
    /\ pc = "pt_end"
    /\ tasks' = remaining_tasks
    /\ remaining_tasks' = <<>>
    /\ pc' = ptRet
    /\ UNCHANGED <<fut0, fut, hist, boArg, ncomplete, nspawn, result>>
    /\ UNCHANGED <<steps, cycleStart, ncycles, rtVars>>
    /\ UNCHANGED <<taskVars, chanVars, selVars, joinVars>>

\* The log of block_on's polls and drain cycles, MaxBoLog entries at most.
BoLogged(h, x) == IF Len(h) < MaxBoLog THEN Append(h, x) ELSE h

\* The block_on calls that returned: the last one with its argument and its
\* value, and of the one before it the value.
Returned(h, x) ==
    IF h = <<>> THEN <<x>> ELSE <<[ret |-> h[Len(h)].ret], x>>

BoSpawn == SpawnUnit(MaxBoUnits)

\* The caller constructs a future and hands it to Runtime::block_on.
RtBlockOnCallOf(F) ==
    /\ pc = "caller"
    /\ \E f \in F :
        /\ fut0' = f
        /\ fut' = f
        /\ boArg' = f
    /\ pc' = "bo_poll"
    /\ boLog' = <<>>
    /\ UNCHANGED <<hist, tasks, ncomplete, nspawn, result>>
    /\ UNCHANGED <<ptRet, spawned, ncalls, reported, results>>
    /\ UNCHANGED <<taskVars, chanVars, selVars, ptVars, joinVars>>

RtBlockOnCall == RtBlockOnCallOf(RtFutures)

\* Mutant of RtBlockOnPoll: the background queue is cleared when block_on
\* returns.
RtBlockOnPoll_flush ==
    /\ pc = "bo_poll"
    /\ \E o \in poll(fut) :
        /\ fut' = o.fut
        /\ boLog' = BoLogged(boLog, o.res.tag)
        /\ pc' = CASE o.res.tag = "Ready" -> "caller"
                   [] o.res.tag = "Panic" -> "panicked"
                   [] OTHER -> "bo_drain"
        /\ result' = IF o.res.tag = "Ready" THEN o.res.val ELSE result
        /\ results' = IF o.res.tag = "Ready"
                      THEN Returned(results, [arg |-> boArg, ret |-> o.res.val])
                      ELSE results
        /\ tasks' = IF o.res.tag = "Ready" THEN <<>> ELSE tasks
    /\ UNCHANGED <<fut0, hist, boArg, ncomplete, nspawn>>
    /\ UNCHANGED <<ptRet, spawned, ncalls, reported>>
    /\ UNCHANGED <<taskVars, chanVars, selVars, ptVars, joinVars>>

\* Mutant of RtBlockOnPoll: a Pending poll is followed by the next poll, no
\* drain cycle in between.
RtBlockOnPoll_nodrain ==
    /\ pc = "bo_poll"
    /\ \E o \in poll(fut) :
        /\ fut' = o.fut
        /\ boLog' = BoLogged(boLog, o.res.tag)
        /\ pc' = CASE o.res.tag = "Ready" -> "caller"
                   [] o.res.tag = "Panic" -> "panicked"
                   [] OTHER -> "bo_poll"
        /\ result' = IF o.res.tag = "Ready" THEN o.res.val ELSE result
        /\ results' = IF o.res.tag = "Ready"
                      THEN Returned(results, [arg |-> boArg, ret |-> o.res.val])
                      ELSE results
    /\ UNCHANGED <<fut0, hist, tasks, boArg, ncomplete, nspawn>>
    /\ UNCHANGED <<ptRet, spawned, ncalls, reported>>
    /\ UNCHANGED <<taskVars, chanVars, selVars, ptVars, joinVars>>

\* Mutant of RtBlockOnPoll: a Pending poll ends block_on, which returns what it
\* returned last.
RtBlockOnPoll_giveup ==
    /\ pc = "bo_poll"
    /\ \E o \in poll(fut) :
        /\ fut' = o.fut
        /\ boLog' = BoLogged(boLog, o.res.tag)
        /\ pc' = CASE o.res.tag = "Ready" -> "caller"
                   [] o.res.tag = "Panic" -> "panicked"
                   [] OTHER -> "caller"
        /\ result' = IF o.res.tag = "Ready" THEN o.res.val ELSE result
        /\ results' = IF o.res.tag = "Ready"
                      THEN Returned(results, [arg |-> boArg, ret |-> o.res.val])
                      ELSE results
    /\ UNCHANGED <<fut0, hist, tasks, boArg, ncomplete, nspawn>>
    /\ UNCHANGED <<ptRet, spawned, ncalls, reported>>
    /\ UNCHANGED <<taskVars, chanVars, selVars, ptVars, joinVars>>

\* Mutant of RtBlockOnPoll: block_on returns the value the runtime returned
\* first.
RtBlockOnPoll_stale ==
    /\ pc = "bo_poll"
    /\ \E o \in poll(fut) :
        /\ fut' = o.fut
        /\ boLog' = BoLogged(boLog, o.res.tag)
        /\ pc' = CASE o.res.tag = "Ready" -> "caller"
                   [] o.res.tag = "Panic" -> "panicked"
                   [] OTHER -> "bo_drain"
        /\ result' = IF o.res.tag = "Ready" THEN o.res.val ELSE result
        /\ results' = IF o.res.tag = "Ready"
                      THEN Returned(results,
                             [arg |-> boArg,
                              ret |-> IF results = <<>> THEN o.res.val
                                      ELSE results[Len(results)].ret])
                      ELSE results
    /\ UNCHANGED <<fut0, hist, tasks, boArg, ncomplete, nspawn>>
    /\ UNCHANGED <<ptRet, spawned, ncalls, reported>>
    /\ UNCHANGED <<taskVars, chanVars, selVars, ptVars, joinVars>>

\* block_on: match future.poll() -- Ready(output) returns output to the
\* caller, Pending goes on to process_tasks.
RtBlockOnPoll ==
    /\ pc = "bo_poll"
    /\ \E o \in poll(fut) :
        /\ fut' = o.fut
        /\ boLog' = BoLogged(boLog, o.res.tag)
        /\ pc' = CASE o.res.tag = "Ready" -> "caller"
                   [] o.res.tag = "Panic" -> "panicked"
                   [] OTHER -> "bo_drain"
        /\ result' = IF o.res.tag = "Ready" THEN o.res.val ELSE result
        /\ results' = IF o.res.tag = "Ready"
                      THEN Returned(results, [arg |-> boArg, ret |-> o.res.val])
                      ELSE results
    /\ UNCHANGED <<fut0, hist, tasks, boArg, ncomplete, nspawn>>
    /\ UNCHANGED <<ptRet, spawned, ncalls, reported>>
    /\ UNCHANGED <<taskVars, chanVars, selVars, ptVars, joinVars>>

\* block_on: Poll::Pending => self.process_tasks().
RtBlockOnDrain ==
    /\ pc = "bo_drain"
    /\ PtEnter("bo_poll")
    /\ boLog' = BoLogged(boLog, "drain")
    /\ UNCHANGED <<fut0, fut, hist, tasks, boArg, ncomplete, nspawn, result>>
    /\ UNCHANGED <<spawned, ncalls, reported, results>>
    /\ UNCHANGED <<taskVars, chanVars, selVars, joinVars>>

NextRuntime == RtSpawn \/ RunCall \/ RunTest \/ PtLoop \/ PtEnd

SpecRuntime == InitRuntime /\ [][NextRuntime]_vars

\* run is a loop of a running program: its next statement is executed.
SpecRuntimeFair == SpecRuntime /\ WF_vars(RunTest \/ PtLoop \/ PtEnd)

NextBlockOn ==
    \/ BoSpawn
    \/ PtLoop
    \/ PtEnd
    \/ RtBlockOnCall
    \/ RtBlockOnPoll
    \/ RtBlockOnDrain

SpecBlockOn == InitRuntime /\ [][NextBlockOn]_vars

\* The first block_on call on the runtime.
RtBlockOnFirst == results = <<>> /\ RtBlockOnCall

NextBlockOnFirst ==
    \/ BoSpawn
    \/ PtLoop
    \/ PtEnd
    \/ RtBlockOnFirst
    \/ RtBlockOnPoll
    \/ RtBlockOnDrain

\* Units are spawned and block_on is called; block_on is a loop of a running
\* program: its next statement is executed.
SpecBlockOnFair ==
    /\ InitRuntime
    /\ [][NextBlockOnFirst]_vars
    /\ WF_vars(PtLoop \/ PtEnd \/ RtBlockOnPoll \/ RtBlockOnDrain)

\* run and block_on called on one Runtime, in any order.
NextRunBlockOn == NextBlockOn \/ RunCall \/ RunTest

SpecRunBlockOn == InitRuntime /\ [][NextRunBlockOn]_vars

\* --------------------------------------- block_on of a Timeout

\* Timeout::new(f, k) over every kind of inner future: a Task that is never
\* completed and an AsyncFn that has run are Pending on every poll.
TimeoutFutures ==
    {TimeoutNew(f, k) : f \in RtFutures, k \in 0..MaxRtTicks}

\* The first block_on call of the program, on a Timeout.
TimeoutBlockOn == results = <<>> /\ RtBlockOnCallOf(TimeoutFutures)

NextTimeoutBlockOn ==
    \/ BoSpawn \/ PtLoop \/ PtEnd
    \/ TimeoutBlockOn \/ RtBlockOnPoll \/ RtBlockOnDrain

\* block_on and process_tasks are plain loops of a running program: their
\* next statement is executed.
SpecTimeoutFair ==
    /\ InitRuntime
    /\ [][NextTimeoutBlockOn]_vars
    /\ WF_vars(PtLoop \/ PtEnd \/ RtBlockOnPoll \/ RtBlockOnDrain)

\* ------------------------------------------ JoinHandle, on its own

InitJoinHandle == InitNoFuture /\ InitTask /\ InitChan /\ InitSel /\ InitPt /\ InitRt /\ InitJoin

\* The handle was moved into await_result(mut self) and dropped there: the
\* caller has no handle to call anything on.
HandleMoved == [h |-> "Moved"]

\* let handle = JoinHandle::new(v); a handle the caller still held is dropped.
JoinNew ==
    /\ Len(jlog) < MaxJoinOps
    /\ \E v \in Values :
        /\ handle' = JoinHandle_new(v)
        /\ jlog' = Append(jlog, [op |-> "new", v |-> v])
    /\ UNCHANGED <<futVars, taskVars, chanVars, selVars, ptVars, rtVars>>

\* handle.await_result(): the handle is passed by value, so the caller must
\* hold one; the cell await_result leaves behind is dropped at its return.
JoinAwait ==
    /\ Len(jlog) < MaxJoinOps
    /\ handle \notin {NoHandle, HandleMoved}
    /\ LET r == await_result(handle)
       IN  jlog' = Append(jlog, [op |-> "await", ret |-> r.ret])
    /\ handle' = HandleMoved
    /\ UNCHANGED <<futVars, taskVars, chanVars, selVars, ptVars, rtVars>>

NextJoinHandle == JoinNew \/ JoinAwait

SpecJoinHandle == InitJoinHandle /\ [][NextJoinHandle]_vars

\* ------------------------- one future among the other operations

\* The future the caller holds, one of each kind.
FrameFutures ==
    {TaskNew, SleepNew(MaxFrameTicks), YieldNew, AsyncFnNew(0),
     TimeoutNew(SleepNew(MaxFrameTicks), 1)}

\* The futures handed to select, none of them the caller's.
FrameOthers == {YieldNew, SleepNew(0)}

InitFrame ==
    /\ fut0 \in FrameFutures
    /\ fut = fut0
    /\ pc = "caller"
    /\ hist = <<>>
    /\ tasks = <<>>
    /\ boArg = NoResult
    /\ ncomplete = 0
    /\ nspawn = 0
    /\ result = NoResult
    /\ InitTask /\ InitChan /\ InitSel /\ InitPt /\ InitRt /\ InitJoin

\* The calls made so far: polls, complete, send and try_recv, spawn, the
\* drain cycles of run, select.
FrameCalls ==
    Len(hist) + ncomplete + Len(clog) + nspawn + ncycles
    + (IF sel.pc = "idle" THEN 0 ELSE 1)

FramePoll == FrameCalls < MaxFrameOps /\ Poll

FrameComplete == FrameCalls < MaxFrameOps /\ Complete

FrameSend == FrameCalls < MaxFrameOps /\ ChanSend

FrameTryRecv == FrameCalls < MaxFrameOps /\ ChanTryRecv

FrameSpawn == FrameCalls < MaxFrameOps /\ SpawnUnit(MaxUnits)

FrameRun == FrameCalls < MaxFrameOps /\ RunCall

FrameSelect == FrameCalls < MaxFrameOps /\ SelectCallOf(FrameOthers)

NextFrame ==
    \/ FramePoll \/ FrameComplete \/ IsReady
    \/ FrameSend \/ FrameTryRecv
    \/ FrameSpawn \/ FrameRun \/ RunTest \/ PtLoop \/ PtEnd
    \/ FrameSelect \/ SelectPollA \/ SelectPollB \/ SelectReturn

SpecFrame == InitFrame /\ [][NextFrame]_vars

\* ------------------------------------------------------------ helpers

Max(a, b) == IF a >= b THEN a ELSE b

Last(s) == s[Len(s)]

\* This step is one poll of the top-level future.
PollStep == Len(hist') = Len(hist) + 1

\* The results of the first n polls of f, where one outcome is possible.
RECURSIVE PollTrace(_, _)
PollTrace(f, n) ==
    IF n = 0 THEN <<>>
    ELSE LET o == CHOOSE x \in poll(f) : TRUE
         IN  <<o.res>> \o PollTrace(o.fut, n - 1)

\* f after its first n polls, where one outcome is possible.
RECURSIVE AfterPolls(_, _)
AfterPolls(f, n) ==
    IF n = 0 THEN f
    ELSE AfterPolls((CHOOSE x \in poll(f) : TRUE).fut, n - 1)

\* The number of the first poll of f that returns Ready, 0 when none of the
\* first MaxPolls does.
FirstReady(f) ==
    LET tr == PollTrace(f, MaxPolls)
        S == {i \in 1..MaxPolls : tr[i].tag = "Ready"}
    IN  IF S = {} THEN 0 ELSE CHOOSE i \in S : \A j \in S : i <= j

\* A tick count held in a u32, as a number (for the small counts of Init).
TicksOf(x) == x.hi * U16Radix + x.lo

\* ------------------------------------------------------------- claims

\* C1: block_on(Timeout::new(Sleep::new(m), k)) never panics and, when it has
\* returned, returned Ok(()) if max(m, 1) <= k and Err(TimeoutError) otherwise;
\* it never goes on to drain with the budget used up.
C1_BlockOnTimeoutSleep ==
    \A m \in 0..MaxTicks, k \in 0..MaxBudget :
        boArg = TimeoutNew(SleepNew(m), k) =>
            /\ pc # "panicked"
            /\ pc = "returned" =>
                result = IF Max(m, 1) <= k THEN Ok(Unit) ELSE ErrTimeout
            /\ pc = "bo_drain" => fut.remaining > 0

C1_Witness ==
    /\ boArg = TimeoutNew(SleepNew(10), 5)
    /\ pc = "returned"
    /\ result = ErrTimeout

\* C2 as stated: a Timeout whose inner future first becomes ready on the poll
\* that takes remaining from 1 to 0 returns Ready(Err(TimeoutError)) on that
\* poll.
C2_TieIsTimeout ==
    (fut0.kind = "Timeout" /\ fut0.remaining >= 1
     /\ FirstReady(fut0.future) = fut0.remaining
     /\ Len(hist) >= fut0.remaining)
        => hist[fut0.remaining] = Ready(ErrTimeout)

\* C2 as amended: on that poll the Timeout returns Ready(Ok(v)), v the inner
\* future's output; the inner result is looked at before the exhausted budget.
C2_TieIsOk ==
    (fut0.kind = "Timeout" /\ fut0.remaining >= 1
     /\ FirstReady(fut0.future) = fut0.remaining
     /\ Len(hist) >= fut0.remaining)
        => hist[fut0.remaining] =
             Ready(Ok(PollTrace(fut0.future, fut0.remaining)[fut0.remaining].val))

C2_Witness ==
    /\ fut0 = TimeoutNew(SleepNew(2), 2)
    /\ hist = <<Pending, Ready(Ok(Unit))>>
    /\ fut.remaining = 0

\* C3: a poll of a Timeout with remaining >= 1 whose inner poll returns
\* Ready(v) returns Ready(Ok(v)) and leaves remaining one smaller.
C3_ReadyIsOk ==
    [][(PollStep /\ fut.kind = "Timeout" /\ fut.remaining >= 1) =>
         \A o \in poll(fut.future) :
            (o.res.tag = "Ready" /\ fut'.future = o.fut) =>
                /\ Last(hist') = Ready(Ok(o.res.val))
                /\ fut'.remaining = fut.remaining - 1]_vars

C3_Witness ==
    /\ fut0 = TimeoutNew(complete(TaskNew, 1), 1)
    /\ hist = <<Ready(Ok(Int32(1)))>>
    /\ fut.remaining = 0

\* C4: with the inner future first ready on its j-th poll and j < budget, the
\* Timeout's polls 1..j-1 return Pending and poll j returns Ready(Ok(output)).
C4_ReadyBeforeBudget ==
    fut0.kind = "Timeout" =>
        LET j == FirstReady(fut0.future)
        IN  (j >= 1 /\ j < fut0.remaining) =>
                \A i \in 1..Len(hist) :
                    /\ i < j => hist[i] = Pending
                    /\ i = j => hist[i] =
                                  Ready(Ok(PollTrace(fut0.future, j)[j].val))

C4_Witness ==
    /\ fut0 = TimeoutNew(SleepNew(3), 5)
    /\ hist = <<Pending, Pending, Ready(Ok(Unit))>>

\* C5: with budget >= 1 and the inner future pending on each of its first
\* `budget` polls, the Timeout's polls 1..budget-1 return Pending, poll number
\* `budget` returns Ready(Err(TimeoutError)), and no poll returns Ok.
C5_PendingUntilBudget ==
    (fut0.kind = "Timeout" /\ fut0.remaining >= 1
     /\ \A i \in 1..fut0.remaining :
            PollTrace(fut0.future, fut0.remaining)[i] = Pending)
        => \A i \in 1..Len(hist) :
            /\ i < fut0.remaining => hist[i] = Pending
            /\ i = fut0.remaining => hist[i] = Ready(ErrTimeout)
            /\ hist[i].tag = "Ready" => hist[i].val = ErrTimeout

C5_Witness ==
    /\ fut0 = TimeoutNew(SleepNew(10), 3)
    /\ hist = <<Pending, Pending, Ready(ErrTimeout)>>

\* C6: the first poll of Timeout::new(f, 0) returns Ready(Err(TimeoutError))
\* for every f.
C6_ZeroBudget ==
    (fut0.kind = "Timeout" /\ fut0.remaining = 0 /\ Len(hist) >= 1)
        => hist[1] = Ready(ErrTimeout)

C6_Witness ==
    /\ fut0 = TimeoutNew(complete(TaskNew, 1), 0)
    /\ Len(hist) >= 1

\* C7: a poll of a Timeout whose remaining is 0 changes neither the inner
\* future nor remaining.
C7_ZeroPollFrame ==
    [][(PollStep /\ fut.kind = "Timeout" /\ fut.remaining = 0) =>
         fut' = fut]_vars

C7_Witness ==
    /\ fut0 = TimeoutNew(SleepNew(5), 2)
    /\ Len(hist) = 4
    /\ fut = TimeoutNew([SleepNew(5) EXCEPT !.elapsed = U32(2)], 0)

\* C8: once a poll of a future has returned Ready(v), no later poll of it
\* returns Ready(w) with w # v.
C8_ReadyValueStable ==
    \A i, j \in 1..Len(hist) :
        (i < j /\ hist[i].tag = "Ready" /\ hist[j].tag = "Ready")
            => hist[j].val = hist[i].val

\* C9: Sleep::new(n) returns Pending on polls 1..n-1 and Ready(()) on poll
\* max(n, 1); block_on(Sleep::new(n)) polls at most max(n, 1) times and then
\* has returned ().
C9_SleepReadyAtN ==
    fut0.kind = "Sleep" =>
        LET n == TicksOf(fut0.ticks)
        IN  /\ \A i \in 1..Len(hist) :
                /\ i < Max(n, 1) => hist[i] = Pending
                /\ i = Max(n, 1) => hist[i] = Ready(Unit)
            /\ boArg = fut0 =>
                /\ pc \in {"bo_poll", "bo_drain"} => Len(hist) < Max(n, 1)
                /\ pc = "returned" => (Len(hist) = Max(n, 1) /\ result = Unit)
                /\ pc # "panicked"

C9_Witness ==
    /\ fut0 = SleepNew(3)
    /\ boArg = fut0
    /\ pc = "returned"
    /\ hist = <<Pending, Pending, Ready(Unit)>>

\* C10: once a poll of a Sleep has returned Ready(()), every later poll of it
\* returns Ready(()).
C10_SleepStaysReady ==
    fut0.kind = "Sleep" =>
        \A i, j \in 1..Len(hist) :
            (i < j /\ hist[i] = Ready(Unit)) => hist[j] = Ready(Unit)

\* C11: a poll of a Task made before any complete call returns Pending; a
\* poll made after complete(v), with no later complete call, returns Ready(v).
C11_TaskPollFollowsComplete ==
    [][(PollStep /\ fut0.kind = "Task") =>
         Last(hist') = IF ncomplete = 0
                       THEN Pending
                       ELSE Ready(Int32(lastv))]_vars

C11_Witness ==
    /\ fut0.kind = "Task"
    /\ ncomplete = 1
    /\ lastv = 2
    /\ hist = <<Pending, Pending, Ready(Int32(2)), Ready(Int32(2)),
                Ready(Int32(2))>>

\* C12: a Task is Running exactly until the first complete call and Ready
\* ever after: no step takes it from Ready to Running, a step takes it from
\* Running to Ready only as the first complete call, and is_ready returns
\* false before that call and true after it.
C12_TaskStateOnce ==
    [][fut0.kind = "Task" =>
         /\ (fut.state = "Running") <=> (ncomplete = 0)
         /\ fut.state = "Ready" => fut'.state = "Ready"
         /\ (fut.state = "Running" /\ fut'.state = "Ready")
                => (ncomplete = 0 /\ ncomplete' = 1)
         /\ obs' # obs => obs' = IF ncomplete = 0 THEN "false" ELSE "true"]_vars

C12_Witness ==
    /\ fut0.kind = "Task"
    /\ ncomplete = 2
    /\ obs = "true"
    /\ Len(hist) >= 2
    /\ hist[1] = Pending

\* C13: complete(v2) on a Task that is Ready(v1) does not fail and stores
\* v2; every poll after it returns Ready(v2).
C13_CompleteOverwrites ==
    [][fut0.kind = "Task" =>
         /\ (ncomplete' = ncomplete + 1 /\ fut.state = "Ready") =>
                (fut'.state = "Ready" /\ fut'.value = lastv' /\ pc' = "caller")
         /\ (PollStep /\ ncomplete >= 2) =>
                (Last(hist') = Ready(Int32(lastv)) /\ pc' # "panicked")]_vars

C13_Witness ==
    /\ fut0.kind = "Task"
    /\ ncomplete = 2
    /\ hist = <<Ready(Int32(1)), Ready(Int32(2)), Ready(Int32(2))>>

\* The calls i..j of clog are all `op`.
AllOp(i, j, op) == \A p \in i..j : clog[p].op = op

\* Before call i every value sent had been received: as many sends as
\* try_recv calls that returned Some.
EmptyBefore(i) ==
    Cardinality({p \in 1..(i - 1) : clog[p].op = "send"})
    = Cardinality({p \in 1..(i - 1) :
                     clog[p].op = "try_recv" /\ clog[p].ret.o = "Some"})

\* C14: n sends v1..vn on an empty Channel followed by try_recv calls only:
\* the k-th try_recv returns Some(vk) for k <= n and None for k > n.
C14_FifoThenNone ==
    \A i \in 1..Len(clog), n \in 0..Len(clog), k \in 1..Len(clog) :
        (/\ i + n + k - 1 <= Len(clog)
         /\ EmptyBefore(i)
         /\ AllOp(i, i + n - 1, "send")
         /\ AllOp(i + n, i + n + k - 1, "try_recv"))
            => clog[i + n + k - 1].ret =
                 IF k <= n THEN Some(clog[i + k - 1].v) ELSE None

C14_Witness ==
    /\ Len(clog) = 6
    /\ clog[1] = [op |-> "send", v |-> 2]
    /\ clog[2] = [op |-> "send", v |-> 1]
    /\ clog[3] = [op |-> "try_recv", ret |-> Some(2)]
    /\ clog[4] = [op |-> "try_recv", ret |-> Some(1)]
    /\ clog[5] = [op |-> "try_recv", ret |-> None]
    /\ clog[6] = [op |-> "try_recv", ret |-> None]

\* C15: try_recv on an empty Channel returns None and leaves the buffer
\* empty; a send(v) and a try_recv right after it return Some(v).
C15_EmptyRecvIsNone ==
    \A p \in 1..Len(clog) :
        (clog[p].op = "try_recv" /\ EmptyBefore(p)) =>
            /\ clog[p].ret = None
            /\ p = Len(clog) => buffer = <<>>
            /\ (/\ p + 2 <= Len(clog)
                /\ clog[p + 1].op = "send"
                /\ clog[p + 2].op = "try_recv")
                   => clog[p + 2].ret = Some(clog[p + 1].v)

C15_Witness ==
    /\ Len(clog) = 3
    /\ clog[1] = [op |-> "try_recv", ret |-> None]
    /\ clog[2] = [op |-> "send", v |-> 2]
    /\ clog[3] = [op |-> "try_recv", ret |-> Some(2)]
    /\ buffer = <<>>

\* C16: send(v) can be called whatever the buffer holds; it makes the buffer
\* one longer, puts v last and leaves the values before it as they were.
C16_SendAppends ==
    [][/\ Len(clog) < MaxChanOps => ENABLED ChanSend
       /\ (Len(clog') = Len(clog) + 1 /\ Last(clog').op = "send") =>
            /\ Len(buffer') = Len(buffer) + 1
            /\ buffer'[Len(buffer')] = Last(clog').v
            /\ \A i \in 1..Len(buffer) : buffer'[i] = buffer[i]]_vars

C16_Witness ==
    /\ Len(buffer) = 4
    /\ Len(clog) = 5
    /\ Last(clog).op = "send"

\* A poll of f returns Pending and leaves f as it was: every later poll
\* does the same.
AlwaysPending(f) == poll(f) = {Out(f, Pending)}

\* The output of the first poll of f that returns Ready.
FirstOutput(f) == PollTrace(f, FirstReady(f))[FirstReady(f)].val

\* select was called and has returned or reached its return statement.
SelectDone == sel.pc \in {"ret", "returned"}

\* C17: when a is Ready on its first poll, select returns First(output of a)
\* whatever b is, and b is never polled: it is as it was handed in.
C17_FirstBias ==
    (sel.pc # "idle" /\ FirstReady(sel0.a) = 1) =>
        /\ sel.pc \in {"a1", "ret", "returned"}
        /\ sel.b = sel0.b
        /\ \A i \in 1..Len(selHist) : selHist[i].who = "a"
        /\ SelectDone => sel.ret = First(FirstOutput(sel0.a))

C17_Witness ==
    /\ sel.pc = "returned"
    /\ sel0.a = complete(TaskNew, 2)
    /\ sel0.b = complete(TaskNew, 1)
    /\ sel.ret = First(Int32(2))
    /\ selHist = <<[who |-> "a", res |-> Ready(Int32(2))]>>

\* C18: with a Pending on every poll and b Ready after finitely many polls,
\* select comes to return Second(output of b); with neither ever Ready it
\* never reaches a return.
C18_SecondOrNever ==
    /\ (sel.pc = "a1" /\ AlwaysPending(sel.a) /\ FirstReady(sel.b) > 0)
          ~> (/\ sel.pc = "ret"
              /\ FirstReady(sel0.b) > 0
              /\ sel.ret = Second(FirstOutput(sel0.b)))
    /\ []((sel.pc # "idle" /\ AlwaysPending(sel0.a) /\ AlwaysPending(sel0.b))
            => (pc = "select" /\ ~SelectDone))

C18_Witness ==
    /\ sel.pc = "ret"
    /\ sel0.a = TaskNew
    /\ sel0.b = SleepNew(3)
    /\ sel.ret = Second(Unit)
    /\ Len(selHist) = 6

\* C19: while select runs the runtime's queue and everything outside select
\* stay as they are; a poll of a leaves b alone and a poll of b leaves a
\* alone.
C19_SelectFrame ==
    [][pc = "select" =>
         /\ tasks' = tasks
         /\ UNCHANGED <<fut0, fut, hist, boArg, ncomplete, nspawn, result>>
         /\ UNCHANGED <<taskVars, chanVars, ptVars, rtVars, joinVars>>
         /\ sel.pc \in {"a1", "a2"} => sel'.b = sel.b
         /\ sel.pc \in {"b1", "b2"} => sel'.a = sel.a]_vars

C19_Witness ==
    /\ pc = "select"
    /\ tasks # <<>>
    /\ sel.pc = "a2"
    /\ Len(selHist) = 4
    /\ sel.a # sel0.a
    /\ sel.b # sel0.b

\* The ids of the units of q, in order.
Ids(q) == [i \in 1..Len(q) |-> q[i].id]

\* A call of u reports not done.
NotDone(u) == ~step(u).done

\* The units of q after one call each.
Stepped(q) == [i \in 1..Len(q) |-> step(q[i]).unit]

\* The units of q that report not done, in the order of q, after their call.
Unfinished(q) == Stepped(SelectSeq(q, NotDone))

\* The ids of q go up from front to back: the order of the spawn calls.
InSpawnOrder(q) == \A i, j \in 1..Len(q) : i < j => q[i].id < q[j].id

\* C20: a call of process_tasks calls the units that were in the queue at its
\* start once each from the front to the back and leaves the queue holding
\* the ones that reported not done in the order they had; over any number of
\* calls the units left stay in the order they were spawned in.
C20_DrainKeepsOrder ==
    /\ pc \in {"pt_loop", "pt_end"} =>
        LET k == Len(steps)
        IN  /\ k <= Len(cycleStart)
            /\ steps = Ids(SubSeq(cycleStart, 1, k))
            /\ tasks = SubSeq(cycleStart, k + 1, Len(cycleStart))
            /\ remaining_tasks = Unfinished(SubSeq(cycleStart, 1, k))
    /\ pc = "pt_end" => steps = Ids(cycleStart)
    /\ (pc = "run" /\ cycleStart # <<>>) =>
        /\ steps = Ids(cycleStart)
        /\ tasks = Unfinished(cycleStart)
        /\ tasks = process_tasks(cycleStart)
    /\ InSpawnOrder(remaining_tasks \o tasks)

C20_Witness ==
    /\ pc = "run"
    /\ ncycles = 2
    /\ nspawn = 3
    /\ steps = <<1, 3>>
    /\ Ids(tasks) = <<1, 3>>
    /\ Ids(cycleStart) = <<1, 3>>
    /\ tasks[1].never /\ tasks[2].never

\* The ids of the units a queue holds.
Queued(q) == {q[i].id : i \in 1..Len(q)}

\* C21: a unit whose call has returned true is in no queue of the runtime
\* and no later drain cycle, of run or of block_on, calls it again.
C21_DoneIsGone ==
    [][/\ reported \cap (Queued(tasks) \cup Queued(remaining_tasks)) = {}
       /\ reported' \cap (Queued(tasks') \cup Queued(remaining_tasks')) = {}
       /\ \A i \in reported : ncalls'[i] = ncalls[i]
       /\ Len(steps') = Len(steps) + 1 => Last(steps') \notin reported]_vars

C21_Witness ==
    /\ reported = {1}
    /\ ncalls = <<1, 3>>
    /\ pc = "pt_end"
    /\ ptRet = "bo_poll"
    /\ steps = <<2>>
    /\ ncycles = MaxCycles

\* No unit of q returns false on every call.
AllFinish(q) == \A i \in 1..Len(q) : ~q[i].never

\* C22: with only units that come to report done in the queue, run returns and
\* leaves the queue empty, each unit called as many times as it needed;
\* run on an empty queue returns at once and calls nothing.
C22_RunTerminates ==
    /\ (pc = "run" /\ AllFinish(tasks)) ~> (pc = "caller" /\ tasks = <<>>)
    /\ [](pc = "caller" /\ tasks = <<>> =>
            \A i \in 1..nspawn :
                ~spawned[i].never /\ ncalls[i] = spawned[i].left)
    /\ [][(pc = "run" /\ tasks = <<>>) =>
            (pc' = "caller" /\ tasks' = <<>> /\ ncalls' = ncalls
             /\ steps' = steps /\ ncycles' = ncycles)]_vars

C22_Witness ==
    /\ pc = "caller"
    /\ tasks = <<>>
    /\ nspawn = 3
    /\ ncalls = <<2, 1, 2>>
    /\ reported = {1, 2, 3}
    /\ ncycles = 2

\* run has been called and has not returned.
InRun == pc \in {"run", "pt_loop", "pt_end"} /\ ptRet = "run"

\* The ids of the queued units that return false on every call.
NeverQueued ==
    LET q == remaining_tasks \o tasks
    IN  {q[i].id : i \in {k \in 1..Len(q) : q[k].never}}

\* The units that come to report done have all done so, after the calls
\* they needed, and are in no queue.
FinishersGone ==
    \A i \in 1..nspawn :
        ~spawned[i].never =>
            /\ i \in reported
            /\ ncalls[i] = spawned[i].left
            /\ i \notin Queued(remaining_tasks \o tasks)

\* C23: with a unit in the queue that never reports done, run does not return
\* and the queue does not become empty; every drain cycle calls that unit
\* once, one cycle follows another, and the units that do come to report
\* done are called until they do and are then removed.
C23_RunLoopsForever ==
    /\ [][(InRun /\ NeverQueued # {}) =>
            (InRun' /\ NeverQueued' = NeverQueued)]_vars
    /\ [](pc = "pt_end" =>
            \A i \in NeverQueued :
                Cardinality({k \in 1..Len(steps) : steps[k] = i}) = 1)
    /\ []<>(~(InRun /\ NeverQueued # {}) \/ pc = "pt_end")
    /\ []<>(~(InRun /\ NeverQueued # {}) \/ pc = "run")
    /\ (InRun /\ NeverQueued # {}) ~> (InRun /\ FinishersGone)

C23_Witness ==
    /\ InRun
    /\ pc = "pt_end"
    /\ NeverQueued = {2}
    /\ steps = <<2>>
    /\ reported = {1, 3}
    /\ ncalls = <<2, 3, 1>>

\* The entries of the log h that are x.
Count(h, x) == Cardinality({k \in 1..Len(h) : h[k] = x})

\* C24: in block_on polls and drain cycles alternate, a poll first: a Pending
\* poll is followed by one drain cycle and then a poll, a Ready poll ends the
\* call with no cycle after it, so there are as many cycles as Pending polls.
C24_PollDrainAlternate ==
    /\ \A k \in 1..Len(boLog) :
        /\ k % 2 = 1 => boLog[k] \in {"Pending", "Ready"}
        /\ k % 2 = 0 => boLog[k] = "drain" /\ boLog[k - 1] = "Pending"
        /\ boLog[k] = "Ready" => k = Len(boLog)
    /\ (pc = "bo_poll" /\ Len(boLog) < MaxBoLog) =>
        Count(boLog, "drain") = Count(boLog, "Pending")
    /\ pc = "bo_drain" =>
        (boLog # <<>> /\ Last(boLog) = "Pending") \/ Len(boLog) = MaxBoLog
    /\ (pc \in {"pt_loop", "pt_end"} /\ ptRet = "bo_poll"
            /\ Len(boLog) < MaxBoLog) =>
        (Last(boLog) = "drain"
         /\ Count(boLog, "drain") = Count(boLog, "Pending"))
    /\ (pc = "caller" /\ results # <<>> /\ Len(boLog) < MaxBoLog) =>
        /\ Last(boLog) = "Ready"
        /\ Count(boLog, "drain") = Count(boLog, "Pending")
        /\ Count(boLog, "Ready") = 1

C24_Witness ==
    /\ pc = "caller"
    /\ boLog = <<"Pending", "drain", "Pending", "drain", "Ready">>
    /\ Last(results).arg = SleepNew(3)
    /\ ncalls = <<2>>

\* block_on has been called and has not returned.
InBlockOn ==
    \/ pc \in {"bo_poll", "bo_drain"}
    \/ pc \in {"pt_loop", "pt_end"} /\ ptRet = "bo_poll"

\* C25: block_on returns when a poll of its future returns Ready and only
\* then; with a future that is Pending on every poll it does not return and
\* goes on polling, one drain cycle after each poll.
C25_BlockOnReturnsIffReady ==
    /\ (pc = "bo_poll" /\ FirstReady(fut) > 0)
          ~> (pc = "caller" /\ results # <<>> /\ Last(boLog) = "Ready")
    /\ [][(InBlockOn /\ ~InBlockOn') =>
            (pc = "bo_poll" /\ pc' = "caller" /\ Last(boLog') = "Ready")]_vars
    /\ [][(pc = "bo_poll" /\ Len(boLog') = Len(boLog) + 1
              /\ Last(boLog') = "Ready") => pc' = "caller"]_vars
    /\ [][(InBlockOn /\ AlwaysPending(boArg)) =>
            (InBlockOn' /\ fut' = boArg)]_vars
    /\ []<>(~(InBlockOn /\ AlwaysPending(boArg)) \/ pc = "bo_poll")
    /\ []<>(~(InBlockOn /\ AlwaysPending(boArg)) \/ pc = "pt_end")

C25_Witness ==
    /\ pc = "bo_poll"
    /\ boArg = [AsyncFnNew(0) EXCEPT !.executed = TRUE]
    /\ Len(boLog) = MaxBoLog
    /\ ncycles = MaxCycles
    /\ ncalls = <<3, 2>>
    /\ reported = {2}

\* C26: block_on of a Task completed with v returns v on the first poll, and
\* does so whatever block_on returned before on the same runtime.
C26_BlockOnCompletedTask ==
    (results # <<>> /\ Last(results).arg.kind = "Task") =>
        /\ Last(results).arg.state = "Ready"
        /\ Last(results).ret = Int32(Last(results).arg.value)
        /\ result = Last(results).ret
        /\ pc = "caller" => boLog = <<"Ready">>

C26_Witness ==
    /\ pc = "caller"
    /\ Len(results) = 2
    /\ results[1].ret = Int32(1)
    /\ results[2] = [arg |-> complete(TaskNew, 2), ret |-> Int32(2)]
    /\ boLog = <<"Ready">>
    /\ tasks # <<>>

\* C27: the first poll of an AsyncFn calls the closure once and returns
\* Ready(its result); later polls return Pending and do not call it, so the
\* closure has run once at most, and block_on of a fresh AsyncFn returns the
\* closure's result after that one call.
C27_AsyncFnOnce ==
    fut0.kind = "AsyncFn" =>
        /\ hist = <<>> => fut = fut0
        /\ hist # <<>> =>
            /\ hist[1] = Ready(Int32(fut0.func + 1))
            /\ \A i \in 2..Len(hist) : hist[i] = Pending
            /\ fut.executed
            /\ fut.func = fut0.func + 1
        /\ (pc = "returned" /\ boArg = fut0) =>
            (result = Int32(fut0.func + 1) /\ Len(hist) = 1)

C27_Witness ==
    /\ fut0 = AsyncFnNew(1)
    /\ hist = <<Ready(Int32(2)), Pending, Pending>>
    /\ fut.func = 2
    /\ pc = "caller"

\* C28: a Yield returns Pending on its first poll and Ready(()) on every poll
\* after it: one Pending in all.
C28_YieldOnce ==
    fut0.kind = "Yield" =>
        /\ \A i \in 1..Len(hist) :
            hist[i] = IF i = 1 THEN Pending ELSE Ready(Unit)
        /\ fut.yielded <=> hist # <<>>
        /\ Cardinality({i \in 1..Len(hist) : hist[i] = Pending}) <= 1

C28_Witness ==
    /\ fut0 = YieldNew
    /\ hist = <<Pending, Ready(Unit), Ready(Unit), Ready(Unit)>>
    /\ pc = "caller"

\* The last call on the handle was await_result.
Awaited == jlog # <<>> /\ Last(jlog).op = "await"

C30_OnlyOwnPoll == [][fut' # fut => Poll]_vars

\* C30: the progress state of the caller's future changes only in a poll of
\* that future or, for a Task, in a call of its complete; spawn,
\* process_tasks, run, send, try_recv, is_ready and the polls select makes of
\* other futures leave it as it was.
C30_OwnPollOrComplete ==
    [][fut' # fut => (Poll \/ (Complete /\ fut.kind = "Task"))]_vars

C30_Witness ==
    /\ fut0 = TaskNew
    /\ fut = complete(TaskNew, 1)
    /\ hist = <<>>
    /\ obs = "true"
    /\ Len(clog) = 1
    /\ nspawn = 1
    /\ ncycles >= 1
    /\ sel.pc = "returned"

\* C31: is_ready and poll leave a Task as it is: the Task is what the last
\* complete call made it (Running when there was none), every step that is
\* not a complete call keeps it so, and each poll and is_ready returns what
\* that state says.
C31_TaskObservers ==
    [][fut0.kind = "Task" =>
         /\ fut = IF ncomplete = 0 THEN TaskNew ELSE complete(TaskNew, lastv)
         /\ ncomplete' = ncomplete => (fut' = fut /\ lastv' = lastv)
         /\ PollStep =>
                /\ ncomplete' = ncomplete
                /\ Last(hist') = IF ncomplete = 0 THEN Pending
                                 ELSE Ready(Int32(lastv))
         /\ obs' # obs =>
                /\ ncomplete' = ncomplete
                /\ obs' = IF ncomplete = 0 THEN "false" ELSE "true"]_vars

C31_Witness ==
    /\ fut0 = TaskNew
    /\ ncomplete = 1
    /\ fut = complete(TaskNew, 1)
    /\ obs = "true"
    /\ hist = <<Pending, Ready(Int32(1)), Ready(Int32(1)), Ready(Int32(1))>>

\* C32: once a poll of a Timeout has returned Ready(Err(TimeoutError)), every
\* later poll returns the same, remaining is 0, and the inner future is as
\* the polls up to the budget left it: it is not polled again.
C32_TimedOutAbsorbing ==
    fut0.kind = "Timeout" =>
        \A i \in 1..Len(hist) :
            hist[i] = Ready(ErrTimeout) =>
                /\ fut.remaining = 0
                /\ fut.future = AfterPolls(fut0.future, Min(i, fut0.remaining))
                /\ \A j \in i..Len(hist) : hist[j] = Ready(ErrTimeout)

C32_Witness ==
    /\ fut0 = TimeoutNew(SleepNew(3), 2)
    /\ hist = <<Pending, Ready(ErrTimeout), Ready(ErrTimeout), Ready(ErrTimeout)>>
    /\ fut = TimeoutNew([SleepNew(3) EXCEPT !.elapsed = U32(2)], 0)

\* C33: remaining of Timeout::new(f, ticks) is within 0..ticks, goes down by
\* one with each poll until it is 0 and stays there, and f has been polled
\* ticks - remaining times; a timeout reported on the poll that takes the
\* last tick comes after f's poll on that same call.
C33_BudgetCountsPolls ==
    fut0.kind = "Timeout" =>
        LET ticks == fut0.remaining
        IN  /\ fut.remaining \in 0..ticks
            /\ fut.remaining = ticks - Min(Len(hist), ticks)
            /\ fut.future = AfterPolls(fut0.future, ticks - fut.remaining)
            /\ (ticks >= 1 /\ Len(hist) = ticks /\ Last(hist) = Ready(ErrTimeout))
                   => fut.future = AfterPolls(fut0.future, ticks)

C33_Witness ==
    /\ fut0 = TimeoutNew(SleepNew(10), 3)
    /\ hist = <<Pending, Pending, Ready(ErrTimeout)>>
    /\ fut = TimeoutNew([SleepNew(10) EXCEPT !.elapsed = U32(3)], 0)

\* C34: block_on(Timeout::new(f, k)) polls the Timeout at most max(k, 1)
\* times, the last of them Ready, runs at most max(k, 1) - 1 drain cycles,
\* and returns, whatever f is and whatever is in the queue.
C34_TimeoutBoundsBlockOn ==
    /\ [](boArg # NoResult =>
            LET n == Max(boArg.remaining, 1)
            IN  /\ pc # "panicked"
                /\ Count(boLog, "Pending") <= n - 1
                /\ Count(boLog, "drain") <= n - 1
                /\ Count(boLog, "Pending") + Count(boLog, "Ready") <= n)
    /\ (pc = "bo_poll") ~> (pc = "caller" /\ results # <<>>)

C34_Witness ==
    /\ boArg = TimeoutNew(TaskNew, 3)
    /\ pc = "caller"
    /\ Last(results).ret = ErrTimeout
    /\ boLog = <<"Pending", "drain", "Pending", "drain", "Ready">>
    /\ nspawn = 2
    /\ Len(tasks) = 2

\* The values of the calls of h that carry one, in call order.
RECURSIVE ValuesOf(_)
ValuesOf(h) ==
    IF h = <<>> THEN <<>>
    ELSE (CASE Head(h).op = "send" -> <<Head(h).v>>
            [] Head(h).ret.o = "Some" -> <<Head(h).ret.v>>
            [] OTHER -> <<>>) \o ValuesOf(Tail(h))

IsSend(c) == c.op = "send"

IsRecv(c) == c.op = "try_recv"

\* C35: in any interleaving of send and try_recv on one Channel the values
\* received so far followed by the buffer are the values sent so far, in send
\* order, and a try_recv returns None exactly when every value sent before it
\* had been received.
C35_NothingLost ==
    /\ ValuesOf(SelectSeq(clog, IsRecv)) \o buffer
         = ValuesOf(SelectSeq(clog, IsSend))
    /\ \A p \in 1..Len(clog) :
        clog[p].op = "try_recv" => (clog[p].ret = None <=> EmptyBefore(p))

C35_Witness ==
    /\ Len(clog) = 6
    /\ clog[1] = [op |-> "send", v |-> 1]
    /\ clog[2] = [op |-> "try_recv", ret |-> Some(1)]
    /\ clog[3] = [op |-> "try_recv", ret |-> None]
    /\ clog[4] = [op |-> "send", v |-> 2]
    /\ clog[5] = [op |-> "send", v |-> 1]
    /\ clog[6] = [op |-> "try_recv", ret |-> Some(2)]
    /\ buffer = <<1>>

\* C36: select(Sleep::new(m), Sleep::new(n)) comes to return, and returns
\* First exactly when max(m, 1) <= max(n, 1), a tie included, and Second
\* otherwise.
C36_SleepRace ==
    /\ [](\A m, n \in 0..MaxSelTicks :
            (SelectDone /\ sel0.a = SleepNew(m) /\ sel0.b = SleepNew(n)) =>
                sel.ret = IF Max(m, 1) <= Max(n, 1)
                          THEN First(Unit) ELSE Second(Unit))
    /\ (sel.pc = "a1" /\ sel.a.kind = "Sleep" /\ sel.b.kind = "Sleep")
          ~> SelectDone

C36_Witness ==
    /\ sel.pc = "returned"
    /\ sel0.a = SleepNew(2)
    /\ sel0.b = SleepNew(2)
    /\ sel.ret = First(Unit)
    /\ Len(selHist) = 3

\* The number of polls of `who` that select has made.
PollsOf(who) == Cardinality({i \in 1..Len(selHist) : selHist[i].who = who})

\* C37: select polls a, b, a, b, ... starting with a: a has been polled as
\* often as b or once more, once more when select returns First and as often
\* when it returns Second, and each future is as that many polls leave it.
C37_SelectAlternates ==
    sel.pc # "idle" =>
        /\ \A i \in 1..Len(selHist) :
            selHist[i].who = IF i % 2 = 1 THEN "a" ELSE "b"
        /\ PollsOf("a") - PollsOf("b") \in {0, 1}
        /\ Len(selHist) < MaxSelLog =>
            /\ sel.a = AfterPolls(sel0.a, PollsOf("a"))
            /\ sel.b = AfterPolls(sel0.b, PollsOf("b"))
            /\ sel.pc \in {"a1", "a2"} => PollsOf("a") = PollsOf("b")
            /\ sel.pc \in {"b1", "b2"} => PollsOf("a") = PollsOf("b") + 1
        /\ SelectDone =>
            /\ sel.ret.s = "First" => PollsOf("a") = PollsOf("b") + 1
            /\ sel.ret.s = "Second" => PollsOf("a") = PollsOf("b")

C37_Witness ==
    /\ sel.pc = "returned"
    /\ sel0.a = SleepNew(3)
    /\ sel0.b = YieldNew
    /\ sel.ret = Second(Unit)
    /\ Len(selHist) = 4

\* The unit has not reported done.
Unreported(u) == u.id \notin reported

\* The unit as the calls made of it so far leave it.
AfterCalls(u) ==
    IF u.never THEN u ELSE [u EXCEPT !.left = u.left - ncalls[u.id]]

\* The units spawned that have not reported done, in spawn order, each after
\* the calls made of it.
Outstanding ==
    LET q == SelectSeq(spawned, Unreported)
    IN  [i \in 1..Len(q) |-> AfterCalls(q[i])]

\* C38: a block_on whose first poll is Ready calls no unit and leaves the
\* queue as it is; whenever block_on has returned the queue holds every unit
\* that has not reported done, in spawn order and with the calls it still
\* needs, and a run that returns afterwards has seen each of them report
\* done.
C38_BlockOnKeepsQueue ==
    /\ [](pc \notin {"pt_loop", "pt_end"} => tasks = Outstanding)
    /\ [][((pc = "caller" /\ pc' = "bo_poll")
            \/ (pc = "bo_poll" /\ boLog = <<>> /\ pc' = "caller"))
              => (tasks' = tasks /\ ncalls' = ncalls /\ reported' = reported
                  /\ ncycles' = ncycles)]_vars
    /\ [][(pc = "run" /\ pc' = "caller") =>
            (tasks' = <<>> /\ reported' = 1..nspawn)]_vars

C38_Witness ==
    /\ pc = "caller"
    /\ boLog = <<"Pending", "drain", "Ready">>
    /\ nspawn = 2
    /\ reported = {1}
    /\ ncalls = <<1, 1>>
    /\ tasks = <<Unit_new(2, 1, FALSE)>>

\* C39: spawn puts the unit at the back of the queue as it was constructed,
\* calls no unit and leaves the units queued before as they were; in every
\* drain cycle the units are called in the order they were spawned in, each
\* unit of the queue once.
C39_SpawnAtBack ==
    /\ [][nspawn' = nspawn + 1 =>
            /\ Len(tasks') = Len(tasks) + 1
            /\ SubSeq(tasks', 1, Len(tasks)) = tasks
            /\ Last(tasks') = Last(spawned')
            /\ Last(tasks').id = nspawn'
            /\ ncalls' = Append(ncalls, 0)
            /\ reported' = reported
            /\ steps' = steps]_vars
    /\ [](\A i, j \in 1..Len(steps) : i < j => steps[i] < steps[j])
    /\ [](pc = "pt_end" => Queued(cycleStart) = {steps[i] : i \in 1..Len(steps)})

C39_Witness ==
    /\ pc = "pt_end"
    /\ nspawn = 2
    /\ steps = <<1, 2>>
    /\ ncalls = <<2, 1>>
    /\ Ids(remaining_tasks) = <<1, 2>>

====
